---- MODULE Spec2Model ----
(***************************************************************************)
(* Model of pelican-references: the citation pipeline of references.py,    *)
(* the number_brackets label style and PelicanReferencesSettings.          *)
(*                                                                         *)
(* Strings are sequences of atoms.  An atom is one character of the text   *)
(* ("[", "@", "a", ...) or one indivisible piece of generated markup       *)
(* ("<sup>", "</a>", ...).  Offsets are Python offsets (0-based, end       *)
(* exclusive), so s[:i] is SubSeq(s, 1, i) and s[j:] is                    *)
(* SubSeq(s, j + 1, Len(s)).                                               *)
(***************************************************************************)
EXTENDS Naturals, Integers, Sequences, FiniteSets

----------------------------------------------------------------------------
(* Bounds *)

MaxSegs == 3

NumDocs == 2

MaxOcc == 2

----------------------------------------------------------------------------
(* Generic string helpers (Python str methods on atom sequences) *)

Whitespace == {" "}

WordChars == {"a", "b", "g", "x", "9", "_"}

DecimalStr(n) == IF n <= 9 THEN <<"0", "1", "2", "3", "4", "5", "6", "7", "8", "9">>[n + 1] ELSE "many"

RECURSIVE LStripChars(_, _)
LStripChars(s, chars) ==
    IF s # <<>> /\ Head(s) \in chars THEN LStripChars(Tail(s), chars) ELSE s

RECURSIVE RStripChars(_, _)
RStripChars(s, chars) ==
    IF s # <<>> /\ s[Len(s)] \in chars
    THEN RStripChars(SubSeq(s, 1, Len(s) - 1), chars)
    ELSE s

Strip(s) == RStripChars(LStripChars(s, Whitespace), Whitespace)

LowerChar(c) ==
    CASE c = "J" -> "j"
      [] c = "S" -> "s"
      [] c = "O" -> "o"
      [] c = "N" -> "n"
      [] OTHER -> c

Lower(s) == [i \in 1..Len(s) |-> LowerChar(s[i])]

RECURSIVE SplitOn(_, _)
SplitOn(s, sep) ==
    IF \E i \in 1..Len(s) : s[i] = sep
    THEN LET i == CHOOSE j \in 1..Len(s) :
                      s[j] = sep /\ \A h \in 1..(j - 1) : s[h] # sep
         IN  <<SubSeq(s, 1, i - 1)>> \o SplitOn(SubSeq(s, i + 1, Len(s)), sep)
    ELSE <<s>>

RECURSIVE Join(_, _)
Join(parts, sep) ==
    IF parts = <<>> THEN <<>>
    ELSE IF Len(parts) = 1 THEN parts[1]
    ELSE parts[1] \o sep \o Join(Tail(parts), sep)

RECURSIVE Flatten(_)
Flatten(parts) == IF parts = <<>> THEN <<>> ELSE Head(parts) \o Flatten(Tail(parts))

----------------------------------------------------------------------------
(* Inputs: document texts, bibliography files, pelican settings *)

KeyA == <<"a">>

KeyB == <<"b">>

KeyGhost == <<"g", "9">>

(* A text is a concatenation of segments.  keys records the citekeys the  *)
(* segment cites as a citation marker (empty: the segment is no marker).  *)
Segments ==
    { [text |-> <<"x", " ">>, keys |-> <<>>],
      [text |-> <<"[", "@", "a", "]">>, keys |-> <<KeyA>>],
      [text |-> <<"[", "@", "b", "]">>, keys |-> <<KeyB>>],
      [text |-> <<"[", "@", "g", "9", "]">>, keys |-> <<KeyGhost>>],
      [text |-> <<"[", "@", "a", ",", " ", "@", "b", "]">>, keys |-> <<KeyA, KeyB>>] }

SegLists == UNION { [1..n -> Segments] : n \in 0..MaxSegs }

TextOf(segs) == Flatten([i \in 1..Len(segs) |-> segs[i].text])

SuffixBib == <<".", "b", "i", "b">>

SuffixJson == <<".", "j", "s", "o", "n">>

SuffixJsonUpper == <<".", "J", "S", "O", "N">>

FormatOfFile(suffix) == IF Lower(suffix) = SuffixJson THEN "csljson" ELSE "bibtex"

(* metadata["bibliography"]: absent, or the file the path points to *)
NoMetadata == [present |-> FALSE, exists |-> FALSE, suffix |-> <<>>, keys |-> <<>>]

BibFiles ==
    { [present |-> TRUE, exists |-> FALSE, suffix |-> SuffixBib, keys |-> <<>>],
      [present |-> TRUE, exists |-> TRUE, suffix |-> SuffixBib, keys |-> <<>>],
      [present |-> TRUE, exists |-> TRUE, suffix |-> SuffixBib, keys |-> <<KeyB, KeyA>>],
      [present |-> TRUE, exists |-> TRUE, suffix |-> SuffixJson, keys |-> <<KeyB, KeyA>>],
      [present |-> TRUE, exists |-> TRUE, suffix |-> SuffixJsonUpper, keys |-> <<KeyB, KeyA>>] }

Documents == { [metadata |-> m, segs |-> s] : m \in {NoMetadata} \cup BibFiles, s \in SegLists }

NoDocument == [metadata |-> NoMetadata, segs |-> <<>>]

(* pelican.settings.get("REFERENCES", None): None or a dict *)
ReferencesSettings ==
    { [isNone |-> TRUE, dict |-> <<>>],
      [isNone |-> FALSE, dict |-> <<>>],
      [isNone |-> FALSE, dict |-> [k \in {"citestyle"} |-> "alpha"]],
      [isNone |-> FALSE, dict |-> [k \in {"citestyle", "bibstyle"} |->
                                      IF k = "citestyle" THEN "number_brackets" ELSE "plain"]] }

----------------------------------------------------------------------------
(* settings.py *)

DictGet(dict, key, default) == IF key \in DOMAIN dict THEN dict[key] ELSE default

PelicanReferencesSettings == [citestyle |-> "numeric", bibstyle |-> "default"]

from_settings(references) ==
    LET obj == PelicanReferencesSettings
    IN  IF references.isNone
        THEN obj
        ELSE [citestyle |-> DictGet(references.dict, "citestyle", obj.citestyle),
              bibstyle |-> DictGet(references.dict, "bibstyle", obj.bibstyle)]

----------------------------------------------------------------------------
(* references.py: read_bibliography *)

(* the text of the file; a CSL-JSON file holds no bibtex entry *)
FileContent(file) == [format |-> FormatOfFile(file.suffix), keys |-> file.keys]

EmptyString == [format |-> "bibtex", keys |-> <<>>]

(* variant: the emptiness test never succeeds *)
IsEmptyStringNever(bibcontent) == FALSE

IsEmptyString(bibcontent) == bibcontent.keys = <<>>

(* variant: the dot of the suffix is stripped before the comparison *)
SuffixIsJsonDotStripped(suffix) ==
    Strip(LStripChars(Lower(suffix), Whitespace \cup {"."})) = <<"j", "s", "o", "n">>

(* path.suffix.lower().lstrip().strip() == "json" *)
SuffixIsJson(suffix) == Strip(LStripChars(Lower(suffix), Whitespace)) = <<"j", "s", "o", "n">>

(* pandoc --from=csljson --to=bibtex *)
Pandoc(bibcontent) == [format |-> "bibtex", keys |-> bibcontent.keys]

(* result of read_bibliography: the string returned and whether pandoc ran *)
read_bibliography(metadata) ==
    IF ~metadata.present
    THEN [bibcontent |-> EmptyString, converted |-> FALSE]
    ELSE IF ~metadata.exists
    THEN [bibcontent |-> EmptyString, converted |-> FALSE]
    ELSE IF SuffixIsJson(metadata.suffix)
    THEN [bibcontent |-> Pandoc(FileContent(metadata)), converted |-> TRUE]
    ELSE [bibcontent |-> FileContent(metadata), converted |-> FALSE]

----------------------------------------------------------------------------
(* references.py: REGEX_CITATION, find_citations *)

RECURSIVE WordRun(_, _)
(* number of consecutive [\w\d] atoms of s from 1-based position p *)
WordRun(s, p) ==
    IF p <= Len(s) /\ s[p] \in WordChars THEN 1 + WordRun(s, p + 1) ELSE 0

(* REGEX_CITATION matched at offset i: the offset after the match, or -1 *)
RegexCitationEnd(s, i) ==
    IF i + 2 <= Len(s) /\ s[i + 1] = "[" /\ s[i + 2] = "@"
    THEN LET n == WordRun(s, i + 3)
         IN  IF n >= 1 /\ i + 3 + n <= Len(s) /\ s[i + 3 + n] = "]"
             THEN i + 3 + n
             ELSE -1
    ELSE -1

Citation(start, end, citekeys) == [start |-> start, end |-> end, citekeys |-> citekeys]

(* [citekey.strip().lstrip("@") for citekey in match.group(1).split(",")] *)
GroupCitekeys(group) ==
    LET parts == SplitOn(group, ",")
    IN  [i \in 1..Len(parts) |-> LStripChars(Strip(parts[i]), {"@"})]

RECURSIVE FindIter(_, _)
(* REGEX_CITATION.finditer from offset i, each match made a Citation *)
FindIter(s, i) ==
    IF i >= Len(s) THEN <<>>
    ELSE LET e == RegexCitationEnd(s, i)
         IN  IF e = -1
             THEN FindIter(s, i + 1)
             ELSE <<Citation(i, e, GroupCitekeys(SubSeq(s, i + 3, e - 1)))>>
                  \o FindIter(s, e)

find_citations(text) == FindIter(text, 0)

----------------------------------------------------------------------------
(* references.py: the citekey list of process_content *)

Contains(seq, x) == \E i \in 1..Len(seq) : seq[i] = x

(* variant: citekeys appended without the membership test *)
AppendNewUnchecked(citekeys, keys) == citekeys \o keys

RECURSIVE AppendNew(_, _)
(* for citekey in keys: if citekey not in citekeys: citekeys.append(citekey) *)
AppendNew(citekeys, keys) ==
    IF keys = <<>> THEN citekeys
    ELSE AppendNew(IF Contains(citekeys, Head(keys)) THEN citekeys
                   ELSE Append(citekeys, Head(keys)),
                   Tail(keys))

RECURSIVE CollectCitekeys(_, _)
(* for citation in citations: ... *)
CollectCitekeys(citekeys, cits) ==
    IF cits = <<>> THEN citekeys
    ELSE CollectCitekeys(AppendNew(citekeys, Head(cits).citekeys), Tail(cits))

----------------------------------------------------------------------------
(* number_brackets.py and references.py: formatting and labels *)

(* LabelStyle.format_labels: the label of the entry at 0-based position number *)
format_label(number) == <<"[", DecimalStr(number + 1), "]">>

RECURSIVE SelectSeq2(_, _)
SelectSeq2(seq, set) ==
    IF seq = <<>> THEN <<>>
    ELSE IF Head(seq) \in set THEN <<Head(seq)>> \o SelectSeq2(Tail(seq), set)
    ELSE SelectSeq2(Tail(seq), set)

(* Parser(wanted_entries=citations).parse_string(bibliography): the keys of *)
(* the bibtex entries of the string that are wanted                         *)
ParsedKeys(bibliography, citations) ==
    IF bibliography.format = "bibtex"
    THEN { bibliography.keys[i] : i \in 1..Len(bibliography.keys) }
         \cap { citations[i] : i \in 1..Len(citations) }
    ELSE {}

(* a cited key without an entry in the parsed bibliography *)
MissingEntry(bibliography, citations) ==
    \E i \in 1..Len(citations) : citations[i] \notin ParsedKeys(bibliography, citations)

(* style.format_bibliography(bib_data, citations) with sorting_style "none": *)
(* the entries of the citations, in their order, labelled by format_labels   *)
format_bibliography(bibliography, citations) ==
    LET found == SelectSeq2(citations, ParsedKeys(bibliography, citations))
    IN  [i \in 1..Len(found) |-> [key |-> found[i], label |-> format_label(i - 1)]]

(* 0-based index of the first entry with entry.key == citekey, -1 if none *)
EntryIndex(citekey, entries) ==
    IF \E i \in 1..Len(entries) : entries[i].key = citekey
    THEN (CHOOSE i \in 1..Len(entries) :
              entries[i].key = citekey /\ \A h \in 1..(i - 1) : entries[h].key # citekey) - 1
    ELSE -1

(* the for/else of inline_label reaches raise KeyError(citekey) *)
RaisesKeyError(citekeys, entries) ==
    \E i \in 1..Len(citekeys) : EntryIndex(citekeys[i], entries) = -1

LinkHref(index) == <<"<a href=\"#reference", DecimalStr(index + 1), "\">">>

(* LabelStyle.inline_label: indices and stripped_labels zipped into links *)
InlineLinks(citekeys, entries) ==
    [i \in 1..Len(citekeys) |->
        LET index == EntryIndex(citekeys[i], entries)
        IN  [citekey |-> citekeys[i],
             index |-> index,
             label |-> RStripChars(LStripChars(entries[index + 1].label, {"["}), {"]"})]]

LinkText(link) == LinkHref(link.index) \o link.label \o <<"</a>">>

inline_label(citekeys, entries) ==
    LET links == InlineLinks(citekeys, entries)
    IN  <<"<sup>", "[">>
        \o Join([i \in 1..Len(links) |-> LinkText(links[i])], <<",", " ">>)
        \o <<"]", "</sup>">>

(* inline_label_fallback: labels unstripped, no outer brackets *)
inline_label_fallback(citekeys, entries) ==
    LET links == [i \in 1..Len(citekeys) |->
                     LET index == EntryIndex(citekeys[i], entries)
                     IN  LinkHref(index) \o entries[index + 1].label \o <<"</a>">>]
    IN  <<"<sup>">> \o Join(links, <<",", " ">>) \o <<"</sup>">>

(* find_plugin("pybtex.style.labels", label_style)() has inline_label *)
HasInlineLabel(label_style) == label_style = "number_brackets"

(* the try/except AttributeError of replace_citations *)
Label(label_style, citekeys, entries) ==
    IF HasInlineLabel(label_style)
    THEN inline_label(citekeys, entries)
    ELSE inline_label_fallback(citekeys, entries)

(* Backend().write_to_file: one <dt>label</dt><dd>text</dd> per entry *)
BackendHtml(entries) ==
    Flatten([i \in 1..Len(entries) |->
                <<"<dt>">> \o entries[i].label \o <<"</dt>", "<dd>">>
                \o entries[i].key \o <<"</dd>">>])

RECURSIVE TagIds(_, _)
(* for index, tag in enumerate(soup.find_all("dt")): tag["id"] = ... *)
TagIds(html, index) ==
    IF html = <<>> THEN <<>>
    ELSE IF Head(html) = "<dt>"
    THEN <<"<dt id=\"reference", DecimalStr(index + 1), "\">">> \o TagIds(Tail(html), index + 1)
    ELSE <<Head(html)>> \o TagIds(Tail(html), index)

(* variant: ids numbered from index + 2 *)
render_bibliography_shifted(entries) == TagIds(BackendHtml(entries), 1)

render_bibliography(entries) == TagIds(BackendHtml(entries), 0)

(* content._content[: start] + label + content._content[end :] *)
Splice(text, start, end, label) ==
    SubSeq(text, 1, start) \o label \o SubSeq(text, end + 1, Len(text))

(* variant: the fragment put in front of the text *)
AppendBibFront(text, rendered) == rendered \o text

(* content._content += rendered_bib *)
AppendBib(text, rendered) == text \o rendered

(* variant: the citations taken in document order *)
NextCitationForward(cits, remaining) == cits[Len(cits) - remaining + 1]

(* for citation in reversed(citations): the citation taken when remaining *)
(* citations are still to be replaced                                      *)
NextCitation(cits, remaining) == cits[remaining]

----------------------------------------------------------------------------
(* State *)

VARIABLES
    references,      \* pelican.settings.get("REFERENCES", None)
    settings,        \* PelicanReferencesSettings.from_settings(pelican)
    idx,             \* documents ReferencesProcessor.process has completed
    pc,              \* position of the run
    doc,             \* the document process_content was last called with
    content,         \* its _content
    bibliography,    \* process_content: bibliography
    converted,       \* read_bibliography ran pandoc for this document
    citations,       \* process_content: citations
    citekeys,        \* process_content: citekeys
    formatted_bib,   \* process_content: formatted_bib (its entries)
    rendered_bib,    \* process_content: rendered_bib
    remaining,       \* replace_citations: citations the loop has not reached
    result,          \* how process_content returned for this document
    raised,          \* the exception that left process(), with its origin
    label_style,     \* label_style of format_bibliography / replace_citations
    spliced,         \* assignments to content._content in replace_citations
    appended,        \* executions of content._content += rendered_bib
    emitted          \* links placed in the text: (citekey, entry index)

vars == <<references, settings, idx, pc, doc, content, bibliography, converted,
          citations, citekeys, formatted_bib, rendered_bib, remaining, result,
          raised, label_style, spliced, appended, emitted>>

Locals ==
    /\ doc = NoDocument
    /\ content = <<>>
    /\ bibliography = EmptyString
    /\ converted = FALSE
    /\ citekeys = <<>>
    /\ formatted_bib = <<>>
    /\ rendered_bib = <<>>
    /\ remaining = 0
    /\ result = "none"
    /\ raised = "none"
    /\ label_style = ""
    /\ spliced = 0
    /\ appended = 0
    /\ emitted = {}

Init ==
    /\ references \in ReferencesSettings
    /\ settings = from_settings(references)
    /\ idx = 0
    /\ pc = "idle"
    /\ citations = <<>>
    /\ Locals

----------------------------------------------------------------------------
(* ReferencesProcessor.process: one call of process_content per document *)

(* for article in articles / for page in pages: a document is left *)
Idle == pc = "idle" /\ idx < NumDocs

(* process_content is entered with document d; fresh locals *)
Enter(d) ==
    /\ doc' = d
    /\ content' = TextOf(d.segs)
    /\ formatted_bib' = <<>>
    /\ rendered_bib' = <<>>
    /\ remaining' = 0
    /\ label_style' = ""
    /\ spliced' = 0
    /\ appended' = 0
    /\ emitted' = {}
    /\ UNCHANGED <<references, settings, raised>>

(* if "bibliography" not in content.metadata: return *)
NoBibliography ==
    /\ Idle
    /\ \E d \in Documents :
        /\ Enter(d)
        /\ ~d.metadata.present
        /\ bibliography' = EmptyString
        /\ converted' = FALSE
        /\ citations' = <<>>
        /\ citekeys' = <<>>
        /\ result' = "no_bibliography"
        /\ idx' = idx + 1
        /\ pc' = "returned"

(* bibliography = read_bibliography(content); if not bibliography: return *)
EmptyBibliography ==
    /\ Idle
    /\ \E d \in Documents :
        /\ Enter(d)
        /\ d.metadata.present
        /\ LET r == read_bibliography(d.metadata)
           IN  /\ IsEmptyString(r.bibcontent)
               /\ bibliography' = r.bibcontent
               /\ converted' = r.converted
        /\ citations' = <<>>
        /\ citekeys' = <<>>
        /\ result' = "empty_bibliography"
        /\ idx' = idx + 1
        /\ pc' = "returned"

(* citations = find_citations(content); if not citations: warning, return *)
NoCitations ==
    /\ Idle
    /\ \E d \in Documents :
        /\ Enter(d)
        /\ d.metadata.present
        /\ LET r == read_bibliography(d.metadata)
           IN  /\ ~IsEmptyString(r.bibcontent)
               /\ bibliography' = r.bibcontent
               /\ converted' = r.converted
        /\ citations' = find_citations(TextOf(d.segs))
        /\ citations' = <<>>
        /\ citekeys' = <<>>
        /\ result' = "no_citations"
        /\ idx' = idx + 1
        /\ pc' = "returned"

(* process_content up to the call of format_bibliography *)
CollectCitations ==
    /\ Idle
    /\ \E d \in Documents :
        /\ Enter(d)
        /\ d.metadata.present
        /\ LET r == read_bibliography(d.metadata)
           IN  /\ ~IsEmptyString(r.bibcontent)
               /\ bibliography' = r.bibcontent
               /\ converted' = r.converted
        /\ citations' = find_citations(TextOf(d.segs))
        /\ citations' # <<>>
        /\ citekeys' = CollectCitekeys(<<>>, citations')
        /\ result' = "none"
        /\ idx' = idx
        /\ pc' = "format"

(* pybtex's format_bibliography looks up every citation in the parsed data; *)
(* the KeyError of a missing one leaves process_content and process()       *)
FormatRaises ==
    /\ pc = "format"
    /\ MissingEntry(bibliography, citekeys)
    /\ raised' = "KeyError:format_bibliography"
    /\ pc' = "aborted"
    /\ UNCHANGED <<references, settings, idx, doc, content, bibliography, converted,
                   citations, citekeys, formatted_bib, rendered_bib, remaining,
                   result, label_style, spliced, appended, emitted>>

(* formatted_bib = format_bibliography(...); rendered_bib = render_bibliography(...); *)
(* (with a citation missing from the parsed data the call lies outside this   *)
(* repository: it either raises, FormatRaises, or returns the entries found)  *)
(* replace_citations is entered with its default label_style                 *)
FormatBibliography ==
    /\ pc = "format"
    /\ formatted_bib' = format_bibliography(bibliography, citekeys)
    /\ rendered_bib' = render_bibliography(formatted_bib')
    /\ label_style' = "number_brackets"
    /\ remaining' = Len(citations)
    /\ pc' = "replace"
    /\ UNCHANGED <<references, settings, idx, doc, content, bibliography, converted,
                   citations, citekeys, result, raised, spliced, appended, emitted>>

(* replace_citations: inline_label raises KeyError(citekey) *)
ReplaceRaises ==
    /\ pc = "replace"
    /\ remaining > 0
    /\ RaisesKeyError(NextCitation(citations, remaining).citekeys, formatted_bib)
    /\ raised' = "KeyError:inline_label"
    /\ pc' = "aborted"
    /\ UNCHANGED <<references, settings, idx, doc, content, bibliography, converted,
                   citations, citekeys, formatted_bib, rendered_bib, remaining,
                   result, label_style, spliced, appended, emitted>>

(* replace_citations: one iteration of the loop *)
ReplaceCitation ==
    /\ pc = "replace"
    /\ remaining > 0
    /\ LET citation == NextCitation(citations, remaining)
       IN  /\ ~RaisesKeyError(citation.citekeys, formatted_bib)
           /\ content' = Splice(content, citation.start, citation.end,
                                Label(label_style, citation.citekeys, formatted_bib))
           /\ emitted' = emitted \cup
                  { [citekey |-> citation.citekeys[i],
                     index |-> EntryIndex(citation.citekeys[i], formatted_bib)] :
                    i \in 1..Len(citation.citekeys) }
    /\ spliced' = spliced + 1
    /\ remaining' = remaining - 1
    /\ UNCHANGED <<references, settings, idx, pc, doc, bibliography, converted,
                   citations, citekeys, formatted_bib, rendered_bib, result,
                   raised, label_style, appended>>

(* content._content += rendered_bib; process_content returns *)
AppendBibliography ==
    /\ pc = "replace"
    /\ remaining = 0
    /\ content' = AppendBib(content, rendered_bib)
    /\ appended' = appended + 1
    /\ result' = "processed"
    /\ idx' = idx + 1
    /\ pc' = "returned"
    /\ UNCHANGED <<references, settings, doc, bibliography, converted, citations,
                   citekeys, formatted_bib, rendered_bib, remaining, raised,
                   label_style, spliced, emitted>>

(* process(): the loop goes on to the next document; the locals of the *)
(* call that returned are gone                                         *)
NextDocument ==
    /\ pc = "returned"
    /\ idx < NumDocs
    /\ pc' = "idle"
    /\ doc' = NoDocument
    /\ content' = <<>>
    /\ bibliography' = EmptyString
    /\ converted' = FALSE
    /\ citations' = <<>>
    /\ citekeys' = <<>>
    /\ formatted_bib' = <<>>
    /\ rendered_bib' = <<>>
    /\ remaining' = 0
    /\ result' = "none"
    /\ label_style' = ""
    /\ spliced' = 0
    /\ appended' = 0
    /\ emitted' = {}
    /\ UNCHANGED <<references, settings, idx, raised>>

(* process() returns after the last document *)
Finish ==
    /\ pc = "returned"
    /\ idx = NumDocs
    /\ pc' = "finished"
    /\ UNCHANGED <<references, settings, idx, doc, content, bibliography, converted,
                   citations, citekeys, formatted_bib, rendered_bib, remaining,
                   result, raised, label_style, spliced, appended, emitted>>

Next ==
    \/ NoBibliography
    \/ EmptyBibliography
    \/ NoCitations
    \/ CollectCitations
    \/ FormatRaises
    \/ FormatBibliography
    \/ ReplaceRaises
    \/ ReplaceCitation
    \/ AppendBibliography
    \/ NextDocument
    \/ Finish

Spec == Init /\ [][Next]_vars

----------------------------------------------------------------------------
(* The citekey list as a function of an arbitrary occurrence list *)

OccKeys == {KeyA, KeyB, KeyGhost}

OccCitekeys == UNION { [1..n -> OccKeys] : n \in 1..2 }

OccLists ==
    UNION { { [i \in 1..n |-> Citation(10 * (i - 1), 10 * (i - 1) + 4 * Len(f[i]), f[i])] :
              f \in [1..n -> OccCitekeys] } : n \in 0..MaxOcc }

InitIndex ==
    /\ references = [isNone |-> TRUE, dict |-> <<>>]
    /\ settings = from_settings(references)
    /\ idx = 0
    /\ pc = "index"
    /\ citations \in OccLists
    /\ Locals

(* the loop of process_content that fills citekeys *)
BuildIndex ==
    /\ pc = "index"
    /\ citekeys' = CollectCitekeys(<<>>, citations)
    /\ pc' = "indexed"
    /\ UNCHANGED <<references, settings, idx, doc, content, bibliography, converted,
                   citations, formatted_bib, rendered_bib, remaining, result,
                   raised, label_style, spliced, appended, emitted>>

NextIndex == BuildIndex

SpecIndex == InitIndex /\ [][NextIndex]_vars

----------------------------------------------------------------------------
(* Properties *)

Original == TextOf(doc.segs)

(* process_content has been entered for doc *)
Entered == pc \in {"format", "replace", "aborted", "returned", "finished"}

(* find_citations has run on doc *)
Scanned ==
    \/ pc \in {"format", "replace"}
    \/ pc = "aborted"
    \/ pc \in {"returned", "finished"} /\ result \in {"no_citations", "processed"}

(* doc cites a citekey that has no entry in its bibliography *)
CitesMissing == Scanned /\ citations # <<>> /\ MissingEntry(bibliography, citekeys)

RECURSIVE Patched(_, _, _, _, _)
(* text with the span of each of cits[i..] replaced by its label, from offset pos *)
Patched(text, cits, entries, i, pos) ==
    IF i > Len(cits) THEN SubSeq(text, pos + 1, Len(text))
    ELSE SubSeq(text, pos + 1, cits[i].start)
         \o Label("number_brackets", cits[i].citekeys, entries)
         \o Patched(text, cits, entries, i + 1, cits[i].end)

RECURSIVE MarkerOccurrences(_, _)
(* the occurrences of the markers among segs, the first segment at offset *)
MarkerOccurrences(segs, offset) ==
    IF segs = <<>> THEN <<>>
    ELSE LET seg == Head(segs)
             rest == MarkerOccurrences(Tail(segs), offset + Len(seg.text))
         IN  IF seg.keys = <<>> THEN rest
             ELSE <<Citation(offset, offset + Len(seg.text), seg.keys)>> \o rest

FirstAt(seq, from, x) ==
    CHOOSE i \in from..Len(seq) : seq[i] = x /\ \A h \in from..(i - 1) : seq[h] # x

(* the id="reference<N>" anchors of text, each with the key of its entry *)
Anchors(text) ==
    { [id |-> text[p + 1],
       key |-> LET o == FirstAt(text, p, "<dd>")
                   c == FirstAt(text, o, "</dd>")
               IN  SubSeq(text, o + 1, c - 1)] :
      p \in { q \in 1..Len(text) : text[q] = "<dt id=\"reference" } }

(* the N of the href="#reference<N>" links of text *)
Hrefs(text) == { text[p + 1] : p \in { q \in 1..Len(text) : text[q] = "<a href=\"#reference" } }

C2_OneOccurrencePerMarker ==
    Scanned => citations = MarkerOccurrences(doc.segs, 0)

BibliographyRead == Entered /\ doc.metadata.present /\ doc.metadata.exists

C4_OtherDocumentsProcessed ==
    pc = "aborted" => idx + 1 = NumDocs

CitedInOrder == Flatten([i \in 1..Len(citations) |-> citations[i].citekeys])

(* C5: the citekey list holds each cited citekey exactly once, in the     *)
(* order of first appearance over the occurrences and their citekeys; its *)
(* first element is the first citekey of the first occurrence.            *)
C5_FirstAppearanceOrder ==
    pc \in {"indexed", "format", "replace"} =>
        LET all == CitedInOrder
        IN  /\ \A i, j \in 1..Len(citekeys) : i # j => citekeys[i] # citekeys[j]
            /\ { citekeys[i] : i \in 1..Len(citekeys) } = { all[i] : i \in 1..Len(all) }
            /\ \A i, j \in 1..Len(citekeys) :
                   i < j => FirstAt(all, 1, citekeys[i]) < FirstAt(all, 1, citekeys[j])
            /\ (all # <<>> => citekeys[1] = citations[1].citekeys[1])

C5_Witness ==
    /\ pc = "indexed"
    /\ Len(citations) >= 2
    /\ Len(citations[1].citekeys) = 2
    /\ Len(citations[2].citekeys) = 2
    /\ Len(citekeys) = 2
    /\ Len(CitedInOrder) > 2
    /\ citations[2].citekeys[1] = citekeys[2]
    /\ citations[2].citekeys[2] = citekeys[1]

(* C6: after a successful processing every link href="#reference<N>" put  *)
(* in the text for a citekey has an id="reference<N>" anchor in the       *)
(* appended listing, on the entry of that citekey.                        *)
C6_LinksResolve ==
    result = "processed" =>
        /\ Hrefs(content) = { DecimalStr(l.index + 1) : l \in emitted }
        /\ \A l \in emitted :
               \E a \in Anchors(content) :
                   a.id = DecimalStr(l.index + 1) /\ a.key = l.citekey

C6_Witness ==
    /\ result = "processed"
    /\ Cardinality(emitted) = 2
    /\ Cardinality(Anchors(content)) = 2
    /\ doc.metadata.keys # citekeys

(* C7: the label strategy that format_bibliography and replace_citations  *)
(* use is the one the configuration names: when REFERENCES names a        *)
(* citestyle, the label style in use is the citestyle of the settings.    *)
C7_ConfiguredStyleUsed ==
    label_style # "" /\ ~references.isNone /\ "citestyle" \in DOMAIN references.dict =>
        label_style = settings.citestyle

(* the inputs of the early exits of process_content *)
EarlyExitInput ==
    \/ ~doc.metadata.present
    \/ ~doc.metadata.exists
    \/ doc.metadata.keys = <<>>
    \/ \A i \in 1..Len(doc.segs) : doc.segs[i].keys = <<>>

(* C8: without bibliography reference, with a missing or empty            *)
(* bibliography file, or without citation marker, process_content returns *)
(* without error, the text unchanged and no bibliography appended.        *)
C8_EarlyExitsLeaveText ==
    Entered /\ EarlyExitInput =>
        /\ pc \in {"returned", "finished"}
        /\ raised = "none"
        /\ content = Original
        /\ appended = 0

C8_Witness ==
    /\ pc = "returned"
    /\ EarlyExitInput
    /\ result = "no_citations"
    /\ doc.metadata.present
    /\ doc.metadata.exists
    /\ doc.metadata.keys # <<>>
    /\ Len(doc.segs) >= 2

(* C9: on success the bibliography fragment is appended exactly once, at  *)
(* the end of the text, after every inline replacement has been applied.  *)
C9_AppendedOnceAtEnd ==
    /\ appended <= 1
    /\ (result = "processed" => appended = 1)
    /\ (appended = 1 =>
            /\ remaining = 0
            /\ spliced = Len(citations)
            /\ content = Patched(Original, citations, formatted_bib, 1, 0) \o rendered_bib)

C9_Witness ==
    /\ result = "processed"
    /\ appended = 1
    /\ Len(citations) >= 2
    /\ rendered_bib # <<>>

(* C10: in the loop of replace_citations the span of every occurrence not *)
(* yet replaced still delimits its original marker text in the current    *)
(* text, and once the loop is over the text is the original with every    *)
(* marker span replaced by its own label.                                 *)
C10_SpansStayValid ==
    pc = "replace" =>
        /\ \A i \in 1..remaining :
               /\ citations[i].end <= Len(content)
               /\ SubSeq(content, citations[i].start + 1, citations[i].end)
                      = SubSeq(Original, citations[i].start + 1, citations[i].end)
               /\ SubSeq(content, citations[i].start + 1, citations[i].end)
                      = <<"[", "@">> \o citations[i].citekeys[1] \o <<"]">>
        /\ (remaining = 0 =>
               content = Patched(Original, citations, formatted_bib, 1, 0))

C10_Witness ==
    /\ pc = "replace"
    /\ remaining >= 1
    /\ spliced >= 1
    /\ Len(content) # Len(Original)
    /\ Len(doc.segs) > Len(citations)

====
